---- MODULE Spec2Model ----
(***************************************************************************)
(* Model of the GraphQL/JWT authentication service:                        *)
(*   - UserResolver (src/src/resolvers/user.ts, lines 98-454)              *)
(*   - the POST /refresh_token route (src/src/resolvers/user.ts, 456-504)  *)
(* Every request handler is a little process.  One action models one       *)
(* awaited store / cache operation of a handler together with the          *)
(* synchronous code that follows it when that code only returns an error;  *)
(* the synchronous tail that creates tokens and answers is its own action, *)
(* so that a read and the issuance based on it can be separated by other   *)
(* requests.                                                               *)
(*                                                                         *)
(* A JavaScript string is modelled as a sequence of atomic chunks          *)
(* (<<"1", ":", "42">>), concatenation is \o, split and parseInt are       *)
(* computed on that sequence.  A nullable value is a sequence of length    *)
(* 0 or 1.                                                                 *)
(***************************************************************************)
EXTENDS Integers, Sequences, FiniteSets, TLC

\* ------------------------------------------------------------------ bounds
\* Requests one after another (Spec): rows in the User table, resets per user.
MaxUsers == 1
MaxVersion == 2
\* Requests interleaved (ConcSpec): request slots, rows, resets per user.
NumProcs == 2
ConcUsers == 1
ConcVersion == 2
\* Requests for a username or an email interleaved (DupSpec): rows.
DupUsers == 2
\* Password resets interleaved (RaceSpec): rows, resets per user.
RaceUsers == 1
RaceVersion == 3
\* The mutations behind isAuth among several users (FrameSpec): rows.
FrameUsers == 2
\* The reset codes one user may be sent in a run that counts them.
MaxResetCodes == 2

Procs == 1..NumProcs
\* The values clients send.
Emails == {"a@x.com", "b@x.com"}
Usernames == {"a", "b"}
Passwords == {"pw1", "pw2"}
\* The codes generateOTP can return, and the token arguments a client sends.
Codes == {<<"17">>, <<"42">>}

\* The mutations behind the isAuth middleware.
AuthOps == {"changeUsername", "changeEmail", "changePassword", "verifyEmail",
            "sendVerifyEmail"}

\* The bounds of a run: the request slots in use, the rows the table may
\* hold, the resets a user may see, the values clients send, the codes
\* generateOTP returns and clients send, the mutations clients call, and
\* the history the run records ("tokens": issued tokens and resets,
\* "codes": retired one-time codes, "resets": reset codes stored).
SeqLim ==
  [slots |-> {1}, users |-> MaxUsers, version |-> MaxVersion,
   emails |-> Emails, usernames |-> Usernames, passwords |-> Passwords,
   codes |-> Codes, authOps |-> AuthOps, history |-> {"tokens"}]

CodeLim ==
  [SeqLim EXCEPT !.history = {"codes"}, !.usernames = {"a"},
                 !.authOps = {"changeEmail", "verifyEmail", "sendVerifyEmail"}]

ConcLim ==
  [slots |-> Procs, users |-> ConcUsers, version |-> ConcVersion,
   emails |-> {"a@x.com"}, usernames |-> {"a"}, passwords |-> {"pw1"},
   codes |-> {<<"17">>}, authOps |-> {"changePassword"},
   history |-> {"tokens"}]

RaceLim ==
  [slots |-> Procs, users |-> RaceUsers, version |-> RaceVersion,
   emails |-> {"a@x.com"}, usernames |-> {"a"}, passwords |-> Passwords,
   codes |-> {<<"17">>}, authOps |-> {}, history |-> {"resets"}]

FrameLim ==
  [slots |-> {1}, users |-> FrameUsers, version |-> 0,
   emails |-> Emails \cup {"c@x.com"}, usernames |-> Usernames \cup {"c"},
   passwords |-> {"pw1"}, codes |-> {<<"17">>}, authOps |-> AuthOps,
   history |-> {}]

DupLim ==
  [slots |-> Procs, users |-> DupUsers, version |-> 0,
   emails |-> Emails, usernames |-> Usernames, passwords |-> {"pw1"},
   codes |-> {<<"17">>}, authOps |-> {"changeUsername", "changeEmail"},
   history |-> {}]

\* --------------------------------------------------------------- constants
VERIFY_EMAIL_PREFIX == <<"verify-email:">>
FORGOT_PASSWORD_PREFIX == <<"forgot-password:">>
ACCESS_TOKEN_EXPIRES_IN == "ACCESS_TOKEN_EXPIRES_IN"
REFRESH_TOKEN_SECRET == "REFRESH_TOKEN_SECRET"
ACCESS_TOKEN_SECRET == "ACCESS_TOKEN_SECRET"
\* The value handed to the cache's EX option (user.ts 152, 375, 440).
OTP_EX == 1000 * 60 * 60
REFRESH_ERROR == "Failed to Refresh Token"

\* ------------------------------------------------------------ pure helpers
DigitChars == <<"0", "1", "2", "3", "4", "5", "6", "7", "8", "9">>

RECURSIVE ToStr(_)
\* `${n}` of a non-negative integer.
ToStr(n) ==
  IF n < 10 THEN <<DigitChars[n + 1]>>
  ELSE ToStr(n \div 10) \o <<DigitChars[(n % 10) + 1]>>

DigitValue(c) == (CHOOSE i \in 1..10 : DigitChars[i] = c) - 1

IsDigit(c) == \E i \in 1..10 : DigitChars[i] = c

RECURSIVE ParseDigits(_, _)
ParseDigits(s, acc) ==
  IF s = <<>> \/ ~IsDigit(Head(s)) THEN acc
  ELSE ParseDigits(Tail(s), 10 * acc + DigitValue(Head(s)))

\* parseInt(s): the leading digits of s; NaN (here -1) when there is none.
parseInt(s) ==
  IF s = <<>> \/ ~IsDigit(Head(s)) THEN -1 ELSE ParseDigits(s, 0)

RECURSIVE SplitAcc(_, _, _)
SplitAcc(s, sep, cur) ==
  IF s = <<>> THEN <<cur>>
  ELSE IF Head(s) = sep THEN <<cur>> \o SplitAcc(Tail(s), sep, <<>>)
  ELSE SplitAcc(Tail(s), sep, Append(cur, Head(s)))

\* s.split(sep): the segments of s between the separators.
Split(s, sep) == SplitAcc(s, sep, <<>>)

\* arr[i] of a JavaScript array, 0-based; undefined is the empty nullable.
At(arr, i) == IF i + 1 \in DOMAIN arr THEN <<arr[i + 1]>> ELSE <<>>

\* argon2.hash / argon2.verify: an opaque one-way tag around the password.
Hash(pw) == <<"argon2", pw>>

\* Variant: the result of argon2.verify negated.
VerifyHash_Negated(hash, pw) == hash # Hash(pw)

VerifyHash(hash, pw) == hash = Hash(pw)

FieldError(f, m) == [field |-> f, message |-> m]

\* createRefreshToken / createAccessToken of utils/auth.
createRefreshToken(user) ==
  [secret |-> REFRESH_TOKEN_SECRET, user_id |-> user.id,
   token_version |-> user.token_version]

createAccessToken(user) ==
  [secret |-> ACCESS_TOKEN_SECRET, user_id |-> user.id]

\* jsonwebtoken's verify(token, secret): the token is there, carries that
\* secret's signature and its expiry is not in the past of the wall clock
\* (clockPast is the outcome of that comparison).  Throws otherwise.
VerifyOk(cookie, secret, clockPast) ==
  /\ cookie # <<>>
  /\ cookie[1].secret = secret
  /\ ~clockPast

\* The res.cookie("qid", ..., { httpOnly: true, path: "/refresh_token" }) call.
QidCookie(token) ==
  [name |-> "qid", value |-> token, httpOnly |-> TRUE, path |-> "/refresh_token"]

Auth(user) ==
  [access_token |-> createAccessToken(user), expires_in |-> ACCESS_TOKEN_EXPIRES_IN]

\* ------------------------------------------------------------------- state
VARIABLES
  lim,            \* the bounds of this run (never changes)
  users,          \* the User table: a sequence of rows, row i has id i
  redis,          \* the cache: key -> [val, ex]
  pc,             \* per request slot: the handler's position
  req,            \* per request slot: arguments and locals of the handler
  resp,           \* per request slot: what the last finished handler answered
  issuedRefresh,  \* history: refresh tokens created, with the bump epoch read
  issuedAccess,   \* history: access tokens created
  bumps,          \* history: per user id, completed reset updates
  rotated,        \* history: unrevoked refresh tokens exchanged successfully
  retired,        \* history: the code last consumed or replaced, and its key
  resetCodes      \* history: per user id, reset codes stored for that user

vars ==
  <<lim, users, redis, pc, req, resp, issuedRefresh, issuedAccess, bumps,
    rotated, retired, resetCodes>>

store == <<users, redis>>

tokens == <<issuedRefresh, issuedAccess, bumps, rotated>>

hist == <<lim, tokens, retired, resetCodes>>

Ids == 1..Len(users)

\* User.findOne({ where: ... }): the row or null.
FindOne(P(_)) ==
  LET S == {i \in Ids : P(users[i])}
  IN IF S = {} THEN <<>> ELSE <<users[CHOOSE i \in S : TRUE]>>

FindByEmail(e) == FindOne(LAMBDA u : u.email = e)

FindByUsername(n) == FindOne(LAMBDA u : u.username = n)

FindById(id) == IF id \in Ids THEN <<users[id]>> ELSE <<>>

\* redis.get / redis.exists / redis.del / redis.set
RedisGet(k) == IF k \in DOMAIN redis THEN <<redis[k].val>> ELSE <<>>

RedisExists(k) == IF k \in DOMAIN redis THEN 1 ELSE 0

RedisDel(k) == [j \in DOMAIN redis \ {k} |-> redis[j]]

RedisSet(k, v, ex) == (k :> [val |-> v, ex |-> ex]) @@ redis

NoResp == [kind |-> "none"]

NoReq == [op |-> "none"]

Idle(p) == pc[p] \in {"idle", "done"}

InitWith(l) ==
  /\ lim = l
  /\ users = <<>>
  /\ redis = [k \in {} |-> <<>>]
  /\ pc = [p \in Procs |-> "idle"]
  /\ req = [p \in Procs |-> NoReq]
  /\ resp = [p \in Procs |-> NoResp]
  /\ issuedRefresh = {}
  /\ issuedAccess = {}
  /\ bumps = [i \in 1..l.users |-> 0]
  /\ rotated = {}
  /\ retired = <<>>
  /\ resetCodes = [i \in 1..l.users |-> 0]

Init == InitWith(SeqLim)

ConcInit == InitWith(ConcLim)

\* ------------------------------------------------------- response helpers
\* A resolver's normal payload (AuthResponse, UserResponse): nullable
\* errors / user / auth, the cookies set on res and the emails handed to
\* sendEmail; ret is the source line of the return statement taken.
Payload(errors, user, auth, cookies, mail, ret) ==
  [kind |-> "payload", errors |-> errors, user |-> user, auth |-> auth,
   cookies |-> cookies, mail |-> mail, ret |-> ret]

ErrorPayload(f, m, ret) == Payload(<<FieldError(f, m)>>, <<>>, <<>>, <<>>, <<>>, ret)

BoolPayload(v, mail, ret) ==
  [kind |-> "boolean", value |-> v, cookies |-> <<>>, mail |-> mail, ret |-> ret]

\* An exception that leaves the resolver: a transport-level failure.
Thrown(what, ret) ==
  [kind |-> "thrown", error |-> what, cookies |-> <<>>, mail |-> <<>>, ret |-> ret]

\* res.status(s).send(body) of the refresh route; cause names the throw
\* that led into the catch block.
HttpResp(s, body, cookies, cause, ret) ==
  [kind |-> "http", status |-> s, body |-> body, cookies |-> cookies,
   mail |-> <<>>, cause |-> cause, ret |-> ret]

Mail(to, subject, token) ==
  [to |-> to, subject |-> subject, body |-> <<"Your Token is: ">> \o token]

\* A request: the operation and its arguments.
Call(op, args) == [op |-> op, args |-> args]

\* The handler of slot p, called as `call`, returns r: its locals die.
Finish(p, call, r) ==
  /\ pc' = [pc EXCEPT ![p] = "done"]
  /\ req' = [req EXCEPT ![p] = call]
  /\ resp' = [resp EXCEPT ![p] = r]

\* The handler of slot p goes on at `label` with the locals `locals`.
Goto(p, label, call, locals) ==
  /\ pc' = [pc EXCEPT ![p] = label]
  /\ req' = [req EXCEPT ![p] = call @@ locals]
  /\ resp' = [resp EXCEPT ![p] = NoResp]

ThisCall(p) == Call(req[p].op, req[p].args)

\* History: the tokens a handler creates for `user`, read when `epoch`
\* resets of that user had completed; late: a reset has completed since.
Issue(user, epoch) ==
  IF "tokens" \in lim.history
  THEN /\ issuedRefresh' =
            issuedRefresh \cup {[tok |-> createRefreshToken(user),
                                 epoch |-> epoch,
                                 late |-> epoch < bumps[user.id]]}
       /\ issuedAccess' = issuedAccess \cup {createAccessToken(user)}
  ELSE UNCHANGED <<issuedRefresh, issuedAccess>>

\* The tokens a client can hold: those the history recorded or, in a run
\* that records none, those of the rows at every version up to the stored.
ClientRefreshTokens ==
  IF "tokens" \in lim.history THEN {e.tok : e \in issuedRefresh}
  ELSE UNION {{createRefreshToken([users[i] EXCEPT !.token_version = v]) :
                 v \in 0..users[i].token_version} : i \in Ids}

ClientAccessTokens ==
  IF "tokens" \in lim.history THEN issuedAccess
  ELSE {createAccessToken(users[i]) : i \in Ids}

\* generateOTP of utils/auth: some code of the code space.
generateOTP == lim.codes

\* A row as User.create(...).save() inserts it (entity defaults).
NewUser(id, email, username, hashedPassword) ==
  [id |-> id, email |-> email, username |-> username,
   password |-> hashedPassword, token_version |-> 0, verified |-> FALSE]

\* The unique constraints a row with this email and username would violate,
\* other than against row `self` (0: none).
Violations(self, email, username) ==
  {c \in {"username", "email"} :
     \E i \in Ids \ {self} :
        \/ c = "username" /\ users[i].username = username
        \/ c = "email" /\ users[i].email = email}

\* err.detail of Postgres error 23505 for the constraint on column c.
ErrDetail(c, value) == <<"Key (", c, ")=(", value, ") already exists.">>

Includes(s, x) == \E i \in DOMAIN s : s[i] = x

VerifyKey(id) == VERIFY_EMAIL_PREFIX \o ToStr(id)

ForgotKey(email) == FORGOT_PASSWORD_PREFIX \o <<email>>

\* History: the one-time code that `cache` holds under key k.
CodeIn(cache, k) ==
  IF SubSeq(k, 1, Len(FORGOT_PASSWORD_PREFIX)) = FORGOT_PASSWORD_PREFIX
  THEN Split(cache[k].val, ":")[2] ELSE cache[k].val

CodeOf(k) == CodeIn(redis, k)

\* History: a handler deletes key k to issue a new code.
Replaced(k) ==
  IF "codes" \in lim.history /\ k \in DOMAIN redis
  THEN <<[key |-> k, code |-> CodeOf(k), by |-> "replaced"]>> ELSE retired

\* History: a handler deletes key k after `code` matched.
Consumed(k, code) ==
  IF "codes" \in lim.history
  THEN <<[key |-> k, code |-> code, by |-> "consumed"]>> ELSE retired

\* History: a handler stores `code` under key k.
Stored(k, code) ==
  IF "codes" \notin lim.history THEN retired
  ELSE IF k \in DOMAIN redis /\ CodeOf(k) # code
  THEN <<[key |-> k, code |-> CodeOf(k), by |-> "replaced"]>>
  ELSE IF /\ retired # <<>>
          /\ retired[1].key = k
          /\ (retired[1].code = code \/ retired[1].by = "consumed")
  THEN <<>> ELSE retired

\* ---------------------------------------------------------------- register
\* user.ts 113-148: what the catch block answers for err.detail.
RegisterError(detail) ==
  IF Includes(detail, "username")
  THEN ErrorPayload("username", "Username Taken", 117)
  ELSE IF Includes(detail, "email")
  THEN ErrorPayload("email", "Email in Use", 127)
  ELSE ErrorPayload("username", "Server Error: Unable to Create User", 140)

\* user.ts 105-148: hash, insert, and the catch block's answers.
Register_Save(p) ==
  /\ Idle(p)
  /\ \E email \in lim.emails, username \in lim.usernames,
        password \in lim.passwords :
       LET call == Call("register",
                     [email |-> email, username |-> username, password |-> password])
           viol == Violations(0, email, username)
           row == NewUser(Len(users) + 1, email, username, Hash(password))
       IN IF viol = {}
          THEN /\ Len(users) < lim.users
               /\ users' = Append(users, row)
               /\ Goto(p, "reg_set", call, [user |-> row])
          ELSE /\ \E c \in viol :
                    Finish(p, call,
                      RegisterError(
                        ErrDetail(c, IF c = "email" THEN email ELSE username)))
               /\ UNCHANGED users
  /\ UNCHANGED <<redis, hist>>

\* user.ts 150-152: generateOTP and redis.set of the verify-email entry.
Register_Set(p) ==
  /\ pc[p] = "reg_set"
  /\ \E token \in generateOTP :
       /\ redis' = RedisSet(VerifyKey(req[p].user.id), token, OTP_EX)
       /\ retired' = Stored(VerifyKey(req[p].user.id), token)
       /\ Goto(p, "reg_ret", req[p], [token |-> token])
  /\ UNCHANGED <<lim, resetCodes, users, tokens>>

\* user.ts 154-166: the email, the cookie and the payload.
Register_Return(p) ==
  /\ pc[p] = "reg_ret"
  /\ LET user == req[p].user
     IN /\ Finish(p, ThisCall(p),
             Payload(<<>>, <<user>>, <<Auth(user)>>,
               <<QidCookie(createRefreshToken(user))>>,
               <<Mail(user.email, "REMASTER - VERIFY EMAIL", req[p].token)>>, 160))
        /\ Issue(user, 0)
  /\ UNCHANGED <<lim, resetCodes, store, bumps, rotated, retired>>

\* ------------------------------------------------------------------- login
\* user.ts 174-196: the lookup, then the password check on the row read.
\* Variant: a wrong password is reported against the password field.
LoginError_Leaky(user, password) ==
  IF user = <<>>
  THEN <<ErrorPayload("email", "Invalid Email or Password", 176)>>
  ELSE IF ~VerifyHash(user[1].password, password)
  THEN <<ErrorPayload("password", "Incorrect Password", 188)>>
  ELSE <<>>

\* user.ts 175-196: what login answers for the row found and the password
\* argument (nothing: the credentials match).
LoginError(user, password) ==
  IF user = <<>>
  THEN <<ErrorPayload("email", "Invalid Email or Password", 176)>>
  ELSE IF ~VerifyHash(user[1].password, password)
  THEN <<ErrorPayload("email", "Invalid Email or Password", 188)>>
  ELSE <<>>

Login_Find(p) ==
  /\ Idle(p)
  /\ \E email \in lim.emails, password \in lim.passwords :
       LET call == Call("login", [email |-> email, password |-> password])
           user == FindByEmail(email)
           error == LoginError(user, password)
       IN IF error # <<>>
          THEN Finish(p, call, error[1])
          ELSE Goto(p, "login_ret", call,
                 [user |-> user[1], epoch |-> bumps[user[1].id]])
  /\ UNCHANGED <<store, hist>>

\* user.ts 198-206
Login_Return(p) ==
  /\ pc[p] = "login_ret"
  /\ LET user == req[p].user
     IN /\ Finish(p, ThisCall(p),
             Payload(<<>>, <<user>>, <<Auth(user)>>,
               <<QidCookie(createRefreshToken(user))>>, <<>>, 200))
        /\ Issue(user, req[p].epoch)
  /\ UNCHANGED <<lim, resetCodes, store, bumps, rotated, retired>>

\* ------------------------------------------------------------------ isAuth
ArgsOf(op) ==
  CASE op = "changeUsername" -> {[username |-> n] : n \in lim.usernames}
    [] op = "changeEmail" -> {[email |-> e] : e \in lim.emails}
    [] op = "changePassword" ->
         {[oldPassword |-> o, newPassword |-> n] :
            o \in lim.passwords, n \in lim.passwords}
    [] op = "verifyEmail" -> {[token |-> t] : t \in lim.codes}
    [] op = "sendVerifyEmail" -> {[none |-> TRUE]}

FirstLabel(op) ==
  CASE op = "changeUsername" -> "cu_find"
    [] op = "changeEmail" -> "ce_find"
    [] op = "changePassword" -> "cp_update"
    [] op = "verifyEmail" -> "ve_get"
    [] op = "sendVerifyEmail" -> "sv_exists"

\* A token an attacker signs with a key of their own.
Forged ==
  {[secret |-> "attacker", user_id |-> i, token_version |-> users[i].token_version] :
     i \in Ids}

\* What a client can put in the authorization header, and whether the wall
\* clock is past the token's expiry when it is verified.
HeaderInputs ==
  {[token |-> <<>>, clockPast |-> FALSE]}
    \cup {[token |-> <<t>>, clockPast |-> FALSE] : t \in Forged}
    \cup {[token |-> <<t>>, clockPast |-> c] :
            t \in ClientAccessTokens, c \in BOOLEAN}

\* The isAuth middleware: verify the access token of the authorization
\* header, load the user named by its subject, attach it to the context.
IsAuth(p) ==
  /\ Idle(p)
  /\ \E op \in lim.authOps, header \in HeaderInputs :
       \E args \in ArgsOf(op) :
         LET user == IF VerifyOk(header.token, ACCESS_TOKEN_SECRET, header.clockPast)
                     THEN FindById(header.token[1].user_id) ELSE <<>>
         IN IF user = <<>>
            THEN Finish(p, Call(op, [authorization |-> header]),
                   Thrown("Not Authenticated", 0))
            ELSE Goto(p, FirstLabel(op), Call(op, args),
                   [authorization |-> header, ctx |-> user[1]])
  /\ UNCHANGED <<store, hist>>

\* ---------------------------------------------------------- changeUsername
\* user.ts 215-227
ChangeUsername_Find(p) ==
  /\ pc[p] = "cu_find"
  /\ IF FindByUsername(req[p].args.username) # <<>>
     THEN Finish(p, ThisCall(p), ErrorPayload("username", "Username Taken", 219))
     ELSE Goto(p, "cu_update", req[p], <<>>)
  /\ UNCHANGED <<store, hist>>

\* user.ts 229-236: the UPDATE; a unique violation makes execute() throw.
ChangeUsername_Update(p) ==
  /\ pc[p] = "cu_update"
  /\ LET id == req[p].ctx.id
         row == [users[id] EXCEPT !.username = req[p].args.username]
     IN IF "username" \in Violations(id, row.email, row.username)
        THEN /\ Finish(p, ThisCall(p), Thrown("QueryFailedError 23505", 234))
             /\ UNCHANGED users
        ELSE /\ users' = [users EXCEPT ![id] = row]
             /\ Finish(p, ThisCall(p), Payload(<<>>, <<row>>, <<>>, <<>>, <<>>, 236))
  /\ UNCHANGED <<redis, hist>>

\* ------------------------------------------------------------- changeEmail
\* user.ts 245-255
ChangeEmail_Find(p) ==
  /\ pc[p] = "ce_find"
  /\ IF FindByEmail(req[p].args.email) # <<>>
     THEN Finish(p, ThisCall(p), ErrorPayload("email", "Email in Use", 247))
     ELSE Goto(p, "ce_update", req[p], <<>>)
  /\ UNCHANGED <<store, hist>>

\* Variant: a new email address has to be verified again.
ChangeEmail_Update_Unverify(p) ==
  /\ pc[p] = "ce_update"
  /\ LET id == req[p].ctx.id
         row == [users[id] EXCEPT !.email = req[p].args.email, !.verified = FALSE]
     IN IF "email" \in Violations(id, row.email, row.username)
        THEN /\ Finish(p, ThisCall(p), Thrown("QueryFailedError 23505", 262))
             /\ UNCHANGED users
        ELSE /\ users' = [users EXCEPT ![id] = row]
             /\ Finish(p, ThisCall(p), Payload(<<>>, <<row>>, <<>>, <<>>, <<>>, 264))
  /\ UNCHANGED <<redis, hist>>

\* user.ts 257-264
ChangeEmail_Update(p) ==
  /\ pc[p] = "ce_update"
  /\ LET id == req[p].ctx.id
         row == [users[id] EXCEPT !.email = req[p].args.email]
     IN IF "email" \in Violations(id, row.email, row.username)
        THEN /\ Finish(p, ThisCall(p), Thrown("QueryFailedError 23505", 262))
             /\ UNCHANGED users
        ELSE /\ users' = [users EXCEPT ![id] = row]
             /\ Finish(p, ThisCall(p), Payload(<<>>, <<row>>, <<>>, <<>>, <<>>, 264))
  /\ UNCHANGED <<redis, hist>>

\* ---------------------------------------------------------- changePassword
\* Variant: changing the password also increments token_version.
ChangePassword_Update_Bumping(p) ==
  /\ pc[p] = "cp_update"
  /\ LET ctx == req[p].ctx
     IN IF ~VerifyHash(ctx.password, req[p].args.oldPassword)
        THEN /\ Finish(p, ThisCall(p),
                  ErrorPayload("oldPassword", "Incorrect Password", 278))
             /\ UNCHANGED users
        ELSE /\ users' = [users EXCEPT
                            ![ctx.id].password = Hash(req[p].args.newPassword),
                            ![ctx.id].token_version = @ + 1]
             /\ Finish(p, ThisCall(p), Payload(<<>>, <<ctx>>, <<>>, <<>>, <<>>, 293))
  /\ UNCHANGED <<redis, hist>>

\* user.ts 273-293: the old password is checked against the row isAuth read.
ChangePassword_Update(p) ==
  /\ pc[p] = "cp_update"
  /\ LET ctx == req[p].ctx
     IN IF ~VerifyHash(ctx.password, req[p].args.oldPassword)
        THEN /\ Finish(p, ThisCall(p),
                  ErrorPayload("oldPassword", "Incorrect Password", 278))
             /\ UNCHANGED users
        ELSE /\ users' = [users EXCEPT ![ctx.id].password =
                            Hash(req[p].args.newPassword)]
             /\ Finish(p, ThisCall(p), Payload(<<>>, <<ctx>>, <<>>, <<>>, <<>>, 293))
  /\ UNCHANGED <<redis, hist>>

\* ---------------------------------------------------- changeForgotPassword
\* user.ts 305-328: what the handler answers for the value redis.get
\* returned and the token argument (nothing: the code matched).
ForgotTokenError(value, token) ==
  IF value = <<>> \/ value[1] = <<>>
  THEN <<ErrorPayload("token", "Token Expired", 306)>>
  ELSE IF <<token>> # At(Split(value[1], ":"), 1)
  THEN <<ErrorPayload("token", "Token Invalid", 320)>>
  ELSE <<>>

\* user.ts 302-330: redis.get, the split of `user_id:code`, the comparison.
ChangeForgotPassword_Get(p) ==
  /\ Idle(p)
  /\ \E email \in lim.emails, token \in lim.codes, password \in lim.passwords :
       LET call == Call("changeForgotPassword",
                     [email |-> email, token |-> token, password |-> password])
           key == ForgotKey(email)
           value == RedisGet(key)
           error == ForgotTokenError(value, token)
       IN IF error # <<>>
          THEN Finish(p, call, error[1])
          ELSE LET userID == At(Split(value[1], ":"), 0)
               IN Goto(p, "cfp_update", call,
                    [key |-> key, numUserID |-> parseInt(userID[1])])
  /\ UNCHANGED <<store, hist>>

\* Variant: the UPDATE sets the password only.
BumpedRow_NoBump(row, hashedPassword) ==
  [row EXCEPT !.password = hashedPassword]

\* The row UPDATE ... SET password, token_version = token_version + 1 writes.
BumpedRow(row, hashedPassword) ==
  [row EXCEPT !.password = hashedPassword, !.token_version = row.token_version + 1]

\* Variant: the handler reads the row, then saves it with token_version one
\* above the value it read.
ChangeForgotPassword_Update_ReadThenSave(p) ==
  /\ pc[p] = "cfp_update"
  /\ LET id == req[p].numUserID
     IN IF id \notin Ids
        THEN /\ Goto(p, "cfp_del", req[p], [result |-> <<>>, epoch |-> 0])
             /\ UNCHANGED <<users, bumps, rotated>>
        ELSE IF "read" \notin DOMAIN req[p]
        THEN /\ Goto(p, "cfp_update", req[p], [read |-> users[id]])
             /\ UNCHANGED <<users, bumps, rotated>>
        ELSE /\ req[p].read.token_version < lim.version
             /\ users' = [users EXCEPT
                            ![id] = BumpedRow(req[p].read, Hash(req[p].args.password))]
             /\ IF "tokens" \in lim.history
                THEN /\ bumps' = [bumps EXCEPT ![id] = bumps[id] + 1]
                     /\ rotated' = {t \in rotated : t.user_id # id}
                ELSE UNCHANGED <<bumps, rotated>>
             /\ Goto(p, "cfp_del", req[p],
                  [result |-> <<users'[id]>>, epoch |-> bumps'[id]])
  /\ UNCHANGED <<lim, resetCodes, redis, issuedRefresh, issuedAccess, retired>>

\* user.ts 330-340: one UPDATE statement, RETURNING the new row.
ChangeForgotPassword_Update(p) ==
  /\ pc[p] = "cfp_update"
  /\ LET id == req[p].numUserID
     IN IF id \in Ids
        THEN /\ users[id].token_version < lim.version
             /\ users' = [users EXCEPT
                            ![id] = BumpedRow(users[id], Hash(req[p].args.password))]
             /\ IF "tokens" \in lim.history
                THEN /\ bumps' = [bumps EXCEPT ![id] = bumps[id] + 1]
                     /\ rotated' = {t \in rotated : t.user_id # id}
                ELSE UNCHANGED <<bumps, rotated>>
             /\ Goto(p, "cfp_del", req[p],
                  [result |-> <<users'[id]>>, epoch |-> bumps'[id]])
        ELSE /\ Goto(p, "cfp_del", req[p], [result |-> <<>>, epoch |-> 0])
             /\ UNCHANGED <<users, bumps, rotated>>
  /\ UNCHANGED <<lim, resetCodes, redis, issuedRefresh, issuedAccess, retired>>

\* Variant: the entry is left in the cache after the reset.
ChangeForgotPassword_Del_Skipped(p) ==
  /\ pc[p] = "cfp_del"
  /\ retired' = Consumed(req[p].key, req[p].args.token)
  /\ Goto(p, "cfp_ret", req[p], <<>>)
  /\ UNCHANGED <<lim, resetCodes, store, tokens>>

\* user.ts 342
ChangeForgotPassword_Del(p) ==
  /\ pc[p] = "cfp_del"
  /\ redis' = RedisDel(req[p].key)
  /\ retired' = Consumed(req[p].key, req[p].args.token)
  /\ Goto(p, "cfp_ret", req[p], <<>>)
  /\ UNCHANGED <<lim, resetCodes, users, tokens>>

\* Variant: cookie and payload from the row as it was before the UPDATE.
ChangeForgotPassword_Return_PreBump(p) ==
  /\ pc[p] = "cfp_ret"
  /\ IF req[p].result = <<>>
     THEN /\ Finish(p, ThisCall(p), Thrown("TypeError", 344))
          /\ UNCHANGED <<issuedRefresh, issuedAccess>>
     ELSE LET user == [req[p].result[1] EXCEPT !.token_version = @ - 1]
          IN /\ Finish(p, ThisCall(p),
                  Payload(<<>>, <<user>>, <<Auth(user)>>,
                    <<QidCookie(createRefreshToken(user))>>, <<>>, 349))
             /\ Issue(user, req[p].epoch)
  /\ UNCHANGED <<lim, resetCodes, store, bumps, rotated, retired>>

\* user.ts 344-355: cookie and payload from the row the UPDATE returned.
ChangeForgotPassword_Return(p) ==
  /\ pc[p] = "cfp_ret"
  /\ IF req[p].result = <<>>
     THEN /\ Finish(p, ThisCall(p), Thrown("TypeError", 344))
          /\ UNCHANGED <<issuedRefresh, issuedAccess>>
     ELSE LET user == req[p].result[1]
          IN /\ Finish(p, ThisCall(p),
                  Payload(<<>>, <<user>>, <<Auth(user)>>,
                    <<QidCookie(createRefreshToken(user))>>, <<>>, 349))
             /\ Issue(user, req[p].epoch)
  /\ UNCHANGED <<lim, resetCodes, store, bumps, rotated, retired>>

\* ---------------------------------------------------------- forgotPassword
\* Variant: an unknown email is answered with false.
ForgotPasswordNoUser_False(email) == BoolPayload(FALSE, <<>>, 362)

\* user.ts 361-363: the answer when no user has this email.
ForgotPasswordNoUser(email) == BoolPayload(TRUE, <<>>, 362)

\* user.ts 360-365
ForgotPassword_Find(p) ==
  /\ Idle(p)
  /\ \E email \in lim.emails :
       LET user == FindByEmail(email)
           call == Call("forgotPassword", [email |-> email])
       IN IF user = <<>>
          THEN Finish(p, call, ForgotPasswordNoUser(email))
          ELSE Goto(p, "fp_exists", call,
                 [user |-> user[1], key |-> ForgotKey(user[1].email)])
  /\ UNCHANGED <<store, hist>>

\* user.ts 367-369
ForgotPassword_Exists(p) ==
  /\ pc[p] = "fp_exists"
  /\ Goto(p, IF RedisExists(req[p].key) # 0 THEN "fp_del" ELSE "fp_set", req[p], <<>>)
  /\ UNCHANGED <<store, hist>>

\* user.ts 370
ForgotPassword_Del(p) ==
  /\ pc[p] = "fp_del"
  /\ redis' = RedisDel(req[p].key)
  /\ retired' = Replaced(req[p].key)
  /\ Goto(p, "fp_set", req[p], <<>>)
  /\ UNCHANGED <<lim, resetCodes, users, tokens>>

\* user.ts 373-381: generateOTP, redis.set, the email, return true.
ForgotPassword_Set(p) ==
  /\ pc[p] = "fp_set"
  /\ \E token \in generateOTP :
       /\ redis' = RedisSet(req[p].key,
                            ToStr(req[p].user.id) \o <<":">> \o token, OTP_EX)
       /\ Finish(p, ThisCall(p),
            BoolPayload(TRUE,
              <<Mail(req[p].args.email, "REMASTER - FORGOT PASSWORD", token)>>, 381))
       /\ retired' = Stored(req[p].key, token)
  /\ IF "resets" \in lim.history
     THEN /\ resetCodes[req[p].user.id] < MaxResetCodes
          /\ resetCodes' = [resetCodes EXCEPT ![req[p].user.id] = @ + 1]
     ELSE UNCHANGED resetCodes
  /\ UNCHANGED <<lim, users, tokens>>

\* ------------------------------------------------------------- verifyEmail
\* Variant: any token is taken while a code is stored.
VerifyTokenError_NoCompare(storedToken, token) ==
  IF storedToken = <<>> \/ storedToken[1] = <<>>
  THEN <<ErrorPayload("token", "Token Expired", 394)>>
  ELSE <<>>

\* user.ts 393-413: what the handler answers for the value redis.get
\* returned and the token argument (nothing: the code matched).
VerifyTokenError(storedToken, token) ==
  IF storedToken = <<>> \/ storedToken[1] = <<>>
  THEN <<ErrorPayload("token", "Token Expired", 394)>>
  ELSE IF storedToken[1] # token
  THEN <<ErrorPayload("token", "Token Invalid", 405)>>
  ELSE <<>>

\* Variant: a wrong token burns the stored code.
VerifyEmail_Get_Burning(p) ==
  /\ pc[p] = "ve_get"
  /\ LET key == VerifyKey(req[p].ctx.id)
         error == VerifyTokenError(RedisGet(key), req[p].args.token)
     IN IF error # <<>>
        THEN /\ Finish(p, ThisCall(p), error[1])
             /\ redis' = RedisDel(key)
        ELSE /\ Goto(p, "ve_update", req[p], [key |-> key])
             /\ UNCHANGED redis
  /\ UNCHANGED <<users, hist>>

\* user.ts 390-413
VerifyEmail_Get(p) ==
  /\ pc[p] = "ve_get"
  /\ LET key == VerifyKey(req[p].ctx.id)
         error == VerifyTokenError(RedisGet(key), req[p].args.token)
     IN IF error # <<>>
        THEN Finish(p, ThisCall(p), error[1])
        ELSE Goto(p, "ve_update", req[p], [key |-> key])
  /\ UNCHANGED <<store, hist>>

\* Variant: the UPDATE has no WHERE clause.
VerifyEmail_Update_NoWhere(p) ==
  /\ pc[p] = "ve_update"
  /\ LET id == req[p].ctx.id
     IN /\ users' = [i \in Ids |-> [users[i] EXCEPT !.verified = TRUE]]
        /\ Goto(p, "ve_del", req[p], [result |-> <<users'[id]>>])
  /\ UNCHANGED <<redis, hist>>

\* user.ts 415-420
VerifyEmail_Update(p) ==
  /\ pc[p] = "ve_update"
  /\ LET id == req[p].ctx.id
     IN /\ users' = [users EXCEPT ![id].verified = TRUE]
        /\ Goto(p, "ve_del", req[p], [result |-> <<users'[id]>>])
  /\ UNCHANGED <<redis, hist>>

\* user.ts 422-424
VerifyEmail_Del(p) ==
  /\ pc[p] = "ve_del"
  /\ redis' = RedisDel(req[p].key)
  /\ retired' = Consumed(req[p].key, req[p].args.token)
  /\ Finish(p, ThisCall(p), Payload(<<>>, req[p].result, <<>>, <<>>, <<>>, 424))
  /\ UNCHANGED <<lim, resetCodes, users, tokens>>

\* --------------------------------------------------------- sendVerifyEmail
\* user.ts 430-434
SendVerifyEmail_Exists(p) ==
  /\ pc[p] = "sv_exists"
  /\ LET key == VerifyKey(req[p].ctx.id)
     IN Goto(p, IF RedisExists(key) # 0 THEN "sv_del" ELSE "sv_set", req[p],
          [key |-> key])
  /\ UNCHANGED <<store, hist>>

\* user.ts 435
SendVerifyEmail_Del(p) ==
  /\ pc[p] = "sv_del"
  /\ redis' = RedisDel(req[p].key)
  /\ retired' = Replaced(req[p].key)
  /\ Goto(p, "sv_set", req[p], <<>>)
  /\ UNCHANGED <<lim, resetCodes, users, tokens>>

\* user.ts 438-446
SendVerifyEmail_Set(p) ==
  /\ pc[p] = "sv_set"
  /\ \E token \in generateOTP :
       /\ redis' = RedisSet(req[p].key, token, OTP_EX)
       /\ Finish(p, ThisCall(p),
            BoolPayload(TRUE,
              <<Mail(req[p].ctx.email, "REMASTER - VERIFY EMAIL", token)>>, 446))
       /\ retired' = Stored(req[p].key, token)
  /\ UNCHANGED <<lim, resetCodes, users, tokens>>

\* ------------------------------------------------------ POST /refresh_token
\* What a client can send as the qid cookie (nothing, a forgery, an access
\* token, which is signed with the other secret, or a refresh token once
\* created), and whether the wall clock is past the token's expiry.
CookieInputs ==
  {[cookie |-> <<>>, clockPast |-> FALSE]}
    \cup {[cookie |-> <<t>>, clockPast |-> FALSE] :
            t \in ClientAccessTokens \cup Forged}
    \cup {[cookie |-> <<t>>, clockPast |-> c] :
            t \in ClientRefreshTokens, c \in BOOLEAN}

\* Variant: the payload's token_version is not compared with the row's.
RefreshCause_NoVersionCheck(cookie, clockPast) ==
  IF cookie = <<>> THEN "cookie absent"
  ELSE IF ~VerifyOk(cookie, REFRESH_TOKEN_SECRET, clockPast)
  THEN (IF cookie[1].secret # REFRESH_TOKEN_SECRET
        THEN "signature invalid" ELSE "token expired")
  ELSE IF FindById(cookie[1].user_id) = <<>> THEN "user not found"
  ELSE "none"

\* Variant: a token exchanged once is refused (one-time refresh tokens).
RefreshCause_OneTime(cookie, clockPast) ==
  IF cookie = <<>> THEN "cookie absent"
  ELSE IF ~VerifyOk(cookie, REFRESH_TOKEN_SECRET, clockPast)
  THEN (IF cookie[1].secret # REFRESH_TOKEN_SECRET
        THEN "signature invalid" ELSE "token expired")
  ELSE LET user == FindById(cookie[1].user_id)
       IN IF user = <<>> THEN "user not found"
          ELSE IF user[1].token_version # cookie[1].token_version
          THEN "token_version mismatch"
          ELSE IF cookie[1] \in rotated THEN "token reused"
          ELSE "none"

\* The first throw of the try block (user.ts 476-485) for this cookie, or
\* "none".
RefreshCause(cookie, clockPast) ==
  IF cookie = <<>> THEN "cookie absent"
  ELSE IF ~VerifyOk(cookie, REFRESH_TOKEN_SECRET, clockPast)
  THEN (IF cookie[1].secret # REFRESH_TOKEN_SECRET
        THEN "signature invalid" ELSE "token expired")
  ELSE LET user == FindById(cookie[1].user_id)
       IN IF user = <<>> THEN "user not found"
          ELSE IF user[1].token_version # cookie[1].token_version
          THEN "token_version mismatch"
          ELSE "none"

\* Variant: the catch block reports what was thrown.
RefreshRejection_Detailed(cause) ==
  HttpResp(401, [error |-> cause], <<>>, cause, 497)

\* user.ts 495-500: what the catch block answers, whatever was thrown.
RefreshRejection(cause) ==
  HttpResp(401, [error |-> REFRESH_ERROR], <<>>, cause, 497)

\* user.ts 476-485 and the catch block 495-500.
Refresh_Find(p) ==
  /\ Idle(p)
  /\ \E in \in CookieInputs :
       LET call == Call("refresh", in)
           cause == RefreshCause(in.cookie, in.clockPast)
       IN IF cause # "none"
          THEN Finish(p, call, RefreshRejection(cause))
          ELSE LET user == FindById(in.cookie[1].user_id)[1]
               IN Goto(p, "rf_ret", call, [user |-> user, epoch |-> bumps[user.id]])
  /\ UNCHANGED <<store, hist>>

\* Variant: the route also sends the refresh token in the body.
Refresh_Return_InBody(p) ==
  /\ pc[p] = "rf_ret"
  /\ LET user == req[p].user
     IN /\ Finish(p, ThisCall(p),
             HttpResp(200,
               [ok |-> TRUE, access_token |-> createAccessToken(user),
                refresh_token |-> createRefreshToken(user),
                expires_in |-> ACCESS_TOKEN_EXPIRES_IN, user |-> user],
               <<QidCookie(createRefreshToken(user))>>, "none", 489))
        /\ Issue(user, req[p].epoch)
        /\ rotated' = rotated \cup
             (IF "tokens" \in lim.history /\ req[p].epoch = bumps[user.id]
              THEN {req[p].args.cookie[1]} ELSE {})
  /\ UNCHANGED <<lim, resetCodes, store, bumps, retired>>

\* user.ts 487-494
Refresh_Return(p) ==
  /\ pc[p] = "rf_ret"
  /\ LET user == req[p].user
     IN /\ Finish(p, ThisCall(p),
             HttpResp(200,
               [ok |-> TRUE, access_token |-> createAccessToken(user),
                expires_in |-> ACCESS_TOKEN_EXPIRES_IN, user |-> user],
               <<QidCookie(createRefreshToken(user))>>, "none", 489))
        /\ Issue(user, req[p].epoch)
        /\ rotated' = rotated \cup
             (IF "tokens" \in lim.history /\ req[p].epoch = bumps[user.id]
              THEN {req[p].args.cookie[1]} ELSE {})
  /\ UNCHANGED <<lim, resetCodes, store, bumps, retired>>

\* ------------------------------------------------------------------- cache
\* The cache drops an entry whose time to live has run out.
RedisExpire(k) ==
  /\ k \in DOMAIN redis
  /\ redis' = RedisDel(k)
  /\ UNCHANGED <<users, pc, req, resp, hist>>

\* ----------------------------------------------------------- specification
Step(p) ==
  \/ Register_Save(p) \/ Register_Set(p) \/ Register_Return(p)
  \/ Login_Find(p) \/ Login_Return(p)
  \/ IsAuth(p)
  \/ ChangeUsername_Find(p) \/ ChangeUsername_Update(p)
  \/ ChangeEmail_Find(p) \/ ChangeEmail_Update(p)
  \/ ChangePassword_Update(p)
  \/ ChangeForgotPassword_Get(p) \/ ChangeForgotPassword_Update(p)
  \/ ChangeForgotPassword_Del(p) \/ ChangeForgotPassword_Return(p)
  \/ ForgotPassword_Find(p) \/ ForgotPassword_Exists(p)
  \/ ForgotPassword_Del(p) \/ ForgotPassword_Set(p)
  \/ VerifyEmail_Get(p) \/ VerifyEmail_Update(p) \/ VerifyEmail_Del(p)
  \/ SendVerifyEmail_Exists(p) \/ SendVerifyEmail_Del(p) \/ SendVerifyEmail_Set(p)
  \/ Refresh_Find(p) \/ Refresh_Return(p)

Expire == \E k \in DOMAIN redis : RedisExpire(k)

Next == (\E p \in lim.slots : Step(p)) \/ Expire

\* Requests run one after another: a single request slot.
Spec == Init /\ [][Next]_vars

\* The life cycle of the one-time codes, requests one after another: the
\* operations that store, read or delete a code or move an email address.
CodeStep(p) ==
  \/ Register_Save(p) \/ Register_Set(p) \/ Register_Return(p)
  \/ IsAuth(p)
  \/ ChangeEmail_Find(p) \/ ChangeEmail_Update(p)
  \/ ChangeForgotPassword_Get(p) \/ ChangeForgotPassword_Update(p)
  \/ ChangeForgotPassword_Del(p) \/ ChangeForgotPassword_Return(p)
  \/ ForgotPassword_Find(p) \/ ForgotPassword_Exists(p)
  \/ ForgotPassword_Del(p) \/ ForgotPassword_Set(p)
  \/ VerifyEmail_Get(p) \/ VerifyEmail_Update(p) \/ VerifyEmail_Del(p)
  \/ SendVerifyEmail_Exists(p) \/ SendVerifyEmail_Del(p) \/ SendVerifyEmail_Set(p)

CodeNext == (\E p \in lim.slots : CodeStep(p)) \/ Expire

CodeInit == InitWith(CodeLim)

CodeSpec == CodeInit /\ [][CodeNext]_vars

\* The token life cycle with requests run concurrently, interleaved at
\* their awaits.
TokenStep(p) ==
  \/ Register_Save(p) \/ Register_Set(p) \/ Register_Return(p)
  \/ Login_Find(p) \/ Login_Return(p)
  \/ IsAuth(p) \/ ChangePassword_Update(p)
  \/ ChangeForgotPassword_Get(p) \/ ChangeForgotPassword_Update(p)
  \/ ChangeForgotPassword_Del(p) \/ ChangeForgotPassword_Return(p)
  \/ ForgotPassword_Find(p) \/ ForgotPassword_Exists(p)
  \/ ForgotPassword_Del(p) \/ ForgotPassword_Set(p)
  \/ Refresh_Find(p) \/ Refresh_Return(p)

ConcNext == (\E p \in lim.slots : TokenStep(p)) \/ Expire

ConcSpec == ConcInit /\ [][ConcNext]_vars

\* Password resets by emailed code, run concurrently.
ResetStep(p) ==
  \/ Register_Save(p) \/ Register_Set(p) \/ Register_Return(p)
  \/ ChangeForgotPassword_Get(p) \/ ChangeForgotPassword_Update(p)
  \/ ChangeForgotPassword_Del(p) \/ ChangeForgotPassword_Return(p)
  \/ ForgotPassword_Find(p) \/ ForgotPassword_Exists(p)
  \/ ForgotPassword_Del(p) \/ ForgotPassword_Set(p)

RaceNext == (\E p \in lim.slots : ResetStep(p)) \/ Expire

RaceInit == InitWith(RaceLim)

RaceSpec == RaceInit /\ [][RaceNext]_vars

\* The mutations behind isAuth, called by several registered users.
AuthStep(p) ==
  \/ Register_Save(p) \/ Register_Set(p) \/ Register_Return(p)
  \/ IsAuth(p)
  \/ ChangeUsername_Find(p) \/ ChangeUsername_Update(p)
  \/ ChangeEmail_Find(p) \/ ChangeEmail_Update(p)
  \/ ChangePassword_Update(p)
  \/ VerifyEmail_Get(p) \/ VerifyEmail_Update(p) \/ VerifyEmail_Del(p)
  \/ SendVerifyEmail_Exists(p) \/ SendVerifyEmail_Del(p)
  \/ SendVerifyEmail_Set(p)

FrameNext == (\E p \in lim.slots : AuthStep(p)) \/ Expire

FrameInit == InitWith(FrameLim)

FrameSpec == FrameInit /\ [][FrameNext]_vars

\* The requests that claim a username or an email, run concurrently.
DupStep(p) ==
  \/ Register_Save(p) \/ Register_Set(p) \/ Register_Return(p)
  \/ IsAuth(p)
  \/ ChangeUsername_Find(p) \/ ChangeUsername_Update(p)
  \/ ChangeEmail_Find(p) \/ ChangeEmail_Update(p)

DupNext == (\E p \in lim.slots : DupStep(p)) \/ Expire

DupInit == InitWith(DupLim)

DupSpec == DupInit /\ [][DupNext]_vars

\* ------------------------------------------------------------- properties
\* What a client sees of a response: not the line that produced it, nor
\* what was thrown inside the handler.
Visible(r) == [x \in DOMAIN r \ {"ret", "cause"} |-> r[x]]

\* This step is the first of a request for `op` in slot p.
Started(p, op) ==
  /\ Idle(p)
  /\ req'[p].op = op
  /\ <<pc[p], req[p], resp[p]>> # <<pc'[p], req'[p], resp'[p]>>

\* This step ends the request of slot p.
Returned(p, label) == pc[p] = label /\ pc'[p] = "done"

\* Refresh token t was created from a row read before a reset of its user
\* that has completed by now.
Superseded(t) ==
  \E e \in issuedRefresh : e.tok = t /\ e.epoch < bumps[t.user_id]

\* C1: once a password reset has incremented a user's token_version, every
\* refresh token created from a row read before that reset (by register,
\* login, an earlier reset or the refresh endpoint, even when created after
\* the reset) is answered 401 with no cookie whenever it is presented,
\* while the isAuth middleware rejects a request only if its access token
\* is absent, expired or was never issued: a reset revokes no access token.
C1_ResetRevokesRefreshTokens ==
  [][\A p \in Procs :
       /\ ( /\ Started(p, "refresh")
            /\ req'[p].args.cookie # <<>>
            /\ Superseded(req'[p].args.cookie[1]) )
          => /\ pc'[p] = "done"
             /\ resp'[p].status = 401
             /\ resp'[p].cookies = <<>>
       /\ ( /\ \E op \in AuthOps : Started(p, op)
            /\ pc'[p] = "done" )
          => LET h == req'[p].args.authorization
             IN h.token = <<>> \/ h.clockPast \/ h.token[1] \notin issuedAccess
    ]_vars

\* C1 witness: a refresh token created after a reset from a row read before
\* it has been presented, unexpired, and answered 401.
C1_Witness ==
  \E p \in Procs, e \in issuedRefresh :
    /\ e.late
    /\ pc[p] = "done" /\ req[p].op = "refresh"
    /\ req[p].args = [cookie |-> <<e.tok>>, clockPast |-> FALSE]
    /\ resp[p].status = 401
    /\ resp[p].cause = "token_version mismatch"

\* The conditions of user.ts 476-485 on the cookie sent, read on the table
\* as it is at the lookup.
RefreshConditions(in) ==
  /\ in.cookie # <<>>
  /\ in.cookie[1].secret = REFRESH_TOKEN_SECRET
  /\ ~in.clockPast
  /\ in.cookie[1].user_id \in Ids
  /\ users[in.cookie[1].user_id].token_version = in.cookie[1].token_version

\* C2: the refresh route goes on to answer 200 with a new qid cookie and an
\* access token only if the cookie is present, verifies under the refresh
\* secret, names a stored user and carries the token_version stored for
\* that user at the lookup; otherwise it answers with no cookie and no
\* access token.
C2_RefreshOnlyIfCurrent ==
  [][\A p \in Procs :
       /\ Started(p, "refresh")
          => IF RefreshConditions(req'[p].args)
             THEN pc'[p] = "rf_ret" /\ resp'[p] = NoResp
             ELSE /\ pc'[p] = "done"
                  /\ resp'[p].status # 200
                  /\ resp'[p].cookies = <<>>
                  /\ "access_token" \notin DOMAIN resp'[p].body
       /\ ( /\ resp'[p] # resp[p]
            /\ resp'[p].kind = "http"
            /\ \/ resp'[p].status = 200
               \/ resp'[p].cookies # <<>>
               \/ "access_token" \in DOMAIN resp'[p].body )
          => /\ pc[p] = "rf_ret"
             /\ resp'[p].status = 200
             /\ Len(resp'[p].cookies) = 1
             /\ resp'[p].cookies[1].name = "qid"
             /\ "access_token" \in DOMAIN resp'[p].body
    ]_vars

\* C2 witness: a 200 answer for a token whose version was the stored one
\* at the lookup and no longer is at the answer.
C2_Witness ==
  \E p \in Procs :
    /\ pc[p] = "done" /\ req[p].op = "refresh"
    /\ resp[p].status = 200
    /\ resp[p].cookies # <<>>
    /\ users[req[p].args.cookie[1].user_id].token_version
         # req[p].args.cookie[1].token_version

\* C3: a refresh token already exchanged is accepted again while it is
\* unexpired and its user has not been reset since; the exchange writes
\* nothing to the table and the new cookie carries the token_version of
\* the token presented.
C3_RotationDoesNotRevoke ==
  [][\A p \in Procs :
       /\ ( /\ Started(p, "refresh")
            /\ req'[p].args.cookie # <<>>
            /\ req'[p].args.cookie[1] \in rotated
            /\ ~req'[p].args.clockPast )
          => pc'[p] = "rf_ret"
       /\ Returned(p, "rf_ret")
          => /\ resp'[p].status = 200
             /\ resp'[p].cookies[1].value.token_version
                  = req[p].args.cookie[1].token_version
             /\ resp'[p].cookies[1].value.user_id = req[p].args.cookie[1].user_id
             /\ users' = users
    ]_vars

\* C3 witness: a token exchanged before has passed the checks again.
C3_Witness ==
  \E p \in Procs :
    /\ pc[p] = "rf_ret"
    /\ req[p].args.cookie[1] \in rotated
    /\ req[p].args.cookie[1] \in {e.tok : e \in issuedRefresh}

\* This step checks a one-time code: verifyEmail's or changeForgotPassword's
\* redis.get and comparison.
Checks(p) ==
  \/ pc[p] = "ve_get" /\ pc'[p] # "ve_get"
  \/ Started(p, "changeForgotPassword")

\* The cache key and the code a checking step presents.
Presented(p) ==
  IF pc[p] = "ve_get"
  THEN [key |-> VerifyKey(req[p].ctx.id), code |-> req[p].args.token]
  ELSE [key |-> ForgotKey(req'[p].args.email), code |-> req'[p].args.token]

Accepted(p) == pc'[p] \in {"ve_update", "cfp_update"}

Refused(p, message) ==
  /\ pc'[p] = "done"
  /\ Visible(resp'[p]) = Visible(ErrorPayload("token", message, 0))

\* Code c is stored under key k.
Live(k, c) == k \in DOMAIN redis /\ CodeOf(k) = c

\* C4: with requests one after another, a stored code is accepted when it
\* is presented, the successful verifyEmail or changeForgotPassword leaves
\* no entry under its key, and the code consumed, presented again before
\* a new code is issued for that key, is refused on field token with
\* Token Expired.
C4_CodeAcceptedOnce ==
  [][\A p \in Procs :
       /\ (Checks(p) /\ Live(Presented(p).key, Presented(p).code))
          => Accepted(p)
       /\ Returned(p, "ve_del")
          => /\ resp'[p].errors = <<>>
             /\ resp'[p].user # <<>> /\ resp'[p].user[1].verified
             /\ VerifyKey(req[p].ctx.id) \notin DOMAIN redis'
       /\ Returned(p, "cfp_ret")
          => /\ resp'[p].kind = "payload" /\ resp'[p].errors = <<>>
             /\ req[p].key \notin DOMAIN redis'
       /\ ( /\ Checks(p)
            /\ retired = <<[key |-> Presented(p).key, code |-> Presented(p).code,
                            by |-> "consumed"]>> )
          => Refused(p, "Token Expired")
    ]_vars

\* C4 witness: changeForgotPassword has answered Token Expired to the code
\* a reset for that email consumed before.
C4_Witness ==
  \E p \in Procs :
    /\ pc[p] = "done" /\ req[p].op = "changeForgotPassword"
    /\ resp[p].ret = 306
    /\ retired = <<[key |-> ForgotKey(req[p].args.email),
                    code |-> req[p].args.token, by |-> "consumed"]>>
    /\ \E i \in Ids : users[i].token_version > 0

\* C5: when sendVerifyEmail or forgotPassword returns, the cache holds
\* under the key exactly the code just mailed, and a code that a later
\* issuance for the same key replaced is not accepted and changes nothing.
C5_OneLiveCodePerKey ==
  [][\A p \in Procs :
       /\ (Returned(p, "fp_set") \/ Returned(p, "sv_set"))
          => /\ req[p].key \in DOMAIN redis'
             /\ resp'[p].mail[1].body =
                  <<"Your Token is: ">> \o CodeIn(redis', req[p].key)
       /\ ( /\ Checks(p)
            /\ retired = <<[key |-> Presented(p).key, code |-> Presented(p).code,
                            by |-> "replaced"]>> )
          => /\ pc'[p] = "done"
             /\ resp'[p].errors # <<>>
             /\ UNCHANGED store
    ]_vars

\* C5 witness: verifyEmail has answered Token Invalid to the first code
\* while the cache holds the second.
C5_Witness ==
  \E p \in Procs :
    /\ pc[p] = "done" /\ req[p].op = "verifyEmail"
    /\ resp[p].ret = 405
    /\ retired # <<>>
    /\ retired[1].by = "replaced"
    /\ retired[1].code = req[p].args.token
    /\ SubSeq(retired[1].key, 1, 1) = VERIFY_EMAIL_PREFIX
    /\ retired[1].key \in DOMAIN redis
    /\ CodeOf(retired[1].key) # req[p].args.token

\* C6: a code check that fails answers Token Invalid or Token Expired on
\* field token with no user, no access token and no cookie, and leaves the
\* table and the cache as they were, so that the stored code, presented
\* next, is accepted.
C6_FailedCheckChangesNothing ==
  [][\A p \in Procs :
       /\ (Checks(p) /\ pc'[p] = "done")
          => /\ Refused(p, "Token Invalid") \/ Refused(p, "Token Expired")
             /\ UNCHANGED store
             /\ \A k \in DOMAIN redis :
                  k \in DOMAIN redis' /\ CodeIn(redis', k) = CodeOf(k)
       /\ (Checks(p) /\ Live(Presented(p).key, Presented(p).code))
          => pc'[p] # "done"
    ]_vars

\* C6 witness: changeForgotPassword has answered Token Invalid and the
\* code stored for that email is still there, the password not reset.
C6_Witness ==
  \E p \in Procs :
    /\ pc[p] = "done" /\ req[p].op = "changeForgotPassword"
    /\ resp[p].ret = 320
    /\ ForgotKey(req[p].args.email) \in DOMAIN redis
    /\ CodeOf(ForgotKey(req[p].args.email)) # req[p].args.token
    /\ \A i \in Ids : users[i].token_version = 0

\* C7: forgotPassword answers true for every email; when no user has the
\* email it writes nothing to the cache and sends no email; when a user
\* has it, an entry under that email's key holds that user's id and the
\* code mailed when it returns.
C7_ForgotPasswordAlwaysTrue ==
  [][\A p \in Procs :
       /\ Started(p, "forgotPassword")
          => IF FindByEmail(req'[p].args.email) = <<>>
             THEN /\ pc'[p] = "done"
                  /\ Visible(resp'[p]) = Visible(BoolPayload(TRUE, <<>>, 0))
                  /\ UNCHANGED store
             ELSE pc'[p] = "fp_exists" /\ UNCHANGED store
       /\ Returned(p, "fp_set")
          => /\ resp'[p].kind = "boolean" /\ resp'[p].value = TRUE
             /\ Len(resp'[p].mail) = 1
             /\ resp'[p].mail[1].to = req[p].args.email
             /\ ForgotKey(req[p].args.email) \in DOMAIN redis'
             /\ redis'[ForgotKey(req[p].args.email)].val =
                  ToStr(req[p].user.id) \o <<":">>
                    \o SubSeq(resp'[p].mail[1].body, 2, Len(resp'[p].mail[1].body))
    ]_vars

\* C7 witness: forgotPassword has answered true for an email no user has,
\* with codes in the cache.
C7_Witness ==
  \E p \in Procs :
    /\ pc[p] = "done" /\ req[p].op = "forgotPassword"
    /\ resp[p].ret = 362 /\ resp[p].value = TRUE
    /\ FindByEmail(req[p].args.email) = <<>>
    /\ ForgotKey(req[p].args.email) \in DOMAIN redis

\* C8: login with an email no user has and login with a wrong password
\* get the same response, an error on field email with Invalid Email or
\* Password, with no cookie and no token, and change nothing.
C8_LoginFailuresAlike ==
  [][\A p \in Procs :
       Started(p, "login")
         => LET user == FindByEmail(req'[p].args.email)
            IN (user = <<>> \/ user[1].password # Hash(req'[p].args.password))
                 => /\ pc'[p] = "done"
                    /\ Visible(resp'[p]) =
                         Visible(ErrorPayload("email", "Invalid Email or Password", 0))
                    /\ resp'[p].cookies = <<>> /\ resp'[p].auth = <<>>
                    /\ UNCHANGED <<store, tokens>>
    ]_vars

\* C8 witness: login has refused a wrong password for a stored email.
C8_Witness ==
  \E p \in Procs :
    /\ pc[p] = "done" /\ req[p].op = "login"
    /\ resp[p].ret = 188
    /\ FindByEmail(req[p].args.email) # <<>>

C10_OneRefreshRejection ==
  \A p \in Procs :
    (resp[p].kind = "http" /\ (resp[p].cause # "none" \/ resp[p].status # 200))
      => Visible(resp[p]) =
           [kind |-> "http", status |-> 401,
            body |-> [error |-> "Failed to Refresh Token"],
            cookies |-> <<>>, mail |-> <<>>]

\* C10 witness: the route has refused a token of the right signature whose
\* token_version is not the stored one.
C10_Witness ==
  \E p \in Procs :
    /\ pc[p] = "done" /\ req[p].op = "refresh"
    /\ resp[p].status = 401
    /\ resp[p].cause = "token_version mismatch"

\* C11: a user's token_version is a natural number, 0 in a new row, that no
\* step decreases; the only step that changes it is the UPDATE of
\* changeForgotPassword, by one; and a refresh token the route accepts
\* before a changePassword returns is accepted after it.
C11_OnlyResetBumps ==
  [][/\ \A i \in Ids :
          /\ users[i].token_version \in Nat
          /\ users'[i].token_version >= users[i].token_version
          /\ users'[i].token_version # users[i].token_version
               => /\ users'[i].token_version = users[i].token_version + 1
                  /\ \E p \in Procs :
                       /\ pc[p] = "cfp_update" /\ pc'[p] = "cfp_del"
                       /\ req[p].numUserID = i
     /\ \A i \in DOMAIN users' \ Ids : users'[i].token_version = 0
     /\ \A p \in Procs :
          Returned(p, "cp_update")
            => \A e \in issuedRefresh :
                 RefreshCause(<<e.tok>>, FALSE) = "none"
                   => RefreshCause(<<e.tok>>, FALSE)' = "none"
    ]_vars

\* C11 witness: changePassword has stored a new password and a refresh
\* token issued before it is one the route accepts.
C11_Witness ==
  \E p \in Procs :
    /\ pc[p] = "done" /\ req[p].op = "changePassword"
    /\ resp[p].ret = 293
    /\ req[p].args.oldPassword # req[p].args.newPassword
    /\ \E e \in issuedRefresh : RefreshCause(<<e.tok>>, FALSE) = "none"

\* C12: a duplicate username or email is never answered by an exception
\* that leaves the resolver: no request ends with the unique violation of
\* the store thrown.
C12_DuplicateNeverThrown ==
  \A p \in Procs :
    ~(resp[p].kind = "thrown" /\ resp[p].error = "QueryFailedError 23505")

\* One hour in the unit of the cache's EX option, seconds.
OneHour == 60 * 60

\* C13: every one-time code in the cache was stored with a time to live of
\* one hour, 3600 seconds.
C13_CodesLiveOneHour ==
  \A k \in DOMAIN redis : redis[k].ex = OneHour

\* C14: a new row is unverified; verified turns true only in the UPDATE of
\* a verifyEmail request that the auth gate attached to that user and
\* whose token equalled the code stored under that user's verify-email
\* key; and no step turns verified from true to false.
C14_VerifiedOnlyByMatchingCode ==
  [][/\ \A i \in Ids :
          /\ users[i].verified => users'[i].verified
          /\ (~users[i].verified /\ users'[i].verified)
               => \E p \in Procs :
                    /\ pc[p] = "ve_update" /\ pc'[p] = "ve_del"
                    /\ req[p].ctx.id = i
     /\ \A i \in DOMAIN users' \ Ids : ~users'[i].verified
     /\ \A p \in Procs :
          /\ (pc[p] = "ve_get" /\ pc'[p] = "ve_update")
               => Live(VerifyKey(req[p].ctx.id), req[p].args.token)
          /\ pc'[p] = "ve_update" => pc[p] \in {"ve_get", "ve_update"}
          /\ (Started(p, "verifyEmail") /\ pc'[p] = "ve_get")
               => req'[p].ctx.id = req'[p].authorization.token[1].user_id
    ]_vars

\* C14 witness: verifyEmail has returned the row it set verified.
C14_Witness ==
  \E p \in Procs :
    /\ pc[p] = "done" /\ req[p].op = "verifyEmail"
    /\ resp[p].ret = 424
    /\ users[resp[p].user[1].id].verified

\* The columns of a User row.
UserFields ==
  {"id", "email", "username", "password", "token_version", "verified"}

\* C15: a response body holds, besides errors and the user row, only the
\* access token and its expiry; every cookie set is named qid, HttpOnly,
\* path /refresh_token, and holds a token signed with the refresh secret;
\* a 200 of the refresh route and a payload with an access token set
\* exactly one such cookie.
C15_RefreshTokenOnlyInCookie ==
  \A p \in Procs :
    LET r == resp[p]
    IN r.kind # "none" =>
         /\ \A i \in DOMAIN r.cookies :
              /\ r.cookies[i].name = "qid"
              /\ r.cookies[i].httpOnly
              /\ r.cookies[i].path = "/refresh_token"
              /\ r.cookies[i].value.secret = REFRESH_TOKEN_SECRET
         /\ r.kind = "payload" =>
              /\ DOMAIN r = {"kind", "errors", "user", "auth", "cookies", "mail", "ret"}
              /\ \A i \in DOMAIN r.user : DOMAIN r.user[i] = UserFields
              /\ \A i \in DOMAIN r.auth :
                   /\ DOMAIN r.auth[i] = {"access_token", "expires_in"}
                   /\ r.auth[i].access_token.secret = ACCESS_TOKEN_SECRET
                   /\ r.auth[i].expires_in = ACCESS_TOKEN_EXPIRES_IN
              /\ Len(r.cookies) = Len(r.auth)
         /\ r.kind = "boolean" => r.cookies = <<>>
         /\ r.kind = "thrown" => r.cookies = <<>>
         /\ r.kind = "http" =>
              IF r.status = 200
              THEN /\ DOMAIN r.body = {"ok", "access_token", "expires_in", "user"}
                   /\ r.body.access_token.secret = ACCESS_TOKEN_SECRET
                   /\ DOMAIN r.body.user = UserFields
                   /\ Len(r.cookies) = 1
              ELSE DOMAIN r.body = {"error"} /\ r.cookies = <<>>

\* C15 witness: after a password reset the refresh route has answered 200
\* with the access token in the body and the refresh token in the qid cookie.
C15_Witness ==
  \E p \in Procs :
    /\ pc[p] = "done" /\ req[p].op = "refresh"
    /\ resp[p].status = 200
    /\ resp[p].cookies[1].value.token_version > 0

\* C16: one issued reset code produces at most one bump: a user's
\* token_version never exceeds the number of reset codes stored for that
\* user (each bump is made by a changeForgotPassword that read such a code).
C16_CodeConsumedAtMostOnce ==
  \A i \in Ids : users[i].token_version <= resetCodes[i]

\* C17: the UPDATE of a changeForgotPassword called with email E changes
\* only the row whose email is E when the UPDATE runs.
C17_ResetOnlyHolderOfEmail ==
  [][\A p \in Procs :
       (pc[p] = "cfp_update" /\ pc'[p] = "cfp_del") =>
         \A i \in Ids :
           users'[i] # users[i] => users[i].email = req[p].args.email]_vars

\* C18: the UPDATE of changeForgotPassword returns the row with the
\* token_version it wrote, one above the stored; the refresh token the
\* handler then puts in the qid cookie carries that token_version and user
\* id, and the refresh route would accept it unless a further reset of that
\* user has completed; a refresh request presenting an unexpired token
\* issued after a reset, with no reset of its user completed since, goes on
\* to answer 200.
C18_ResetCookieIsCurrent ==
  [][\A p \in Procs :
       /\ (pc[p] = "cfp_update" /\ pc'[p] = "cfp_del" /\ req'[p].result # <<>>)
          => /\ req'[p].result[1] = users'[req[p].numUserID]
             /\ req'[p].result[1].token_version
                  = users[req[p].numUserID].token_version + 1
       /\ (Returned(p, "cfp_ret") /\ req[p].result # <<>>)
          => /\ Len(resp'[p].cookies) = 1
             /\ LET t == resp'[p].cookies[1].value
                IN /\ t.user_id = req[p].numUserID
                   /\ t.token_version = req[p].result[1].token_version
                   /\ req[p].epoch = bumps[t.user_id]
                        => RefreshCause(<<t>>, FALSE) = "none"
       /\ ( /\ Started(p, "refresh")
            /\ ~req'[p].args.clockPast
            /\ \E e \in issuedRefresh :
                 /\ req'[p].args.cookie = <<e.tok>>
                 /\ e.epoch >= 1
                 /\ e.epoch = bumps[e.tok.user_id] )
          => pc'[p] = "rf_ret"
    ]_vars

\* C18 witness: the cookie one slot's changeForgotPassword answered with
\* has been presented in the other slot and the refresh route answered 200.
C18_Witness ==
  \E p, q \in Procs :
    /\ pc[q] = "done" /\ req[q].op = "changeForgotPassword"
    /\ resp[q].kind = "payload" /\ resp[q].cookies # <<>>
    /\ pc[p] = "done" /\ req[p].op = "refresh"
    /\ req[p].args.cookie = <<resp[q].cookies[1].value>>
    /\ resp[p].status = 200

\* Slot p runs a changeForgotPassword whose UPDATE has written a row.
Resetting(p) ==
  /\ pc[p] \in {"cfp_del", "cfp_ret"}
  /\ req[p].result # <<>>

\* C19: a user's token_version equals the number of changeForgotPassword
\* UPDATEs completed for that user, however the requests interleave: the
\* k-th UPDATE returns token_version k, and two resets of one user in
\* progress at once hold different token_versions.
C19_NoBumpLost ==
  /\ \A i \in Ids : users[i].token_version = bumps[i]
  /\ \A p \in Procs :
       Resetting(p) =>
         /\ req[p].result[1].token_version = req[p].epoch
         /\ req[p].epoch \in 1..bumps[req[p].numUserID]
  /\ \A p, q \in Procs :
       ( /\ p # q /\ Resetting(p) /\ Resetting(q)
         /\ req[p].numUserID = req[q].numUserID )
       => req[p].result[1].token_version # req[q].result[1].token_version

\* C19 witness: two resets of one user are in progress at once, one of them
\* the second completed for that user.
C19_Witness ==
  \E p, q \in Procs :
    /\ p # q /\ Resetting(p) /\ Resetting(q)
    /\ req[p].numUserID = req[q].numUserID
    /\ users[req[p].numUserID].token_version = 2

\* The positions of the handlers behind isAuth.
AuthLabels ==
  {"cu_find", "cu_update", "ce_find", "ce_update", "cp_update",
   "ve_get", "ve_update", "ve_del", "sv_exists", "sv_del", "sv_set"}

\* C20: isAuth attaches the user named by the subject of the access token
\* and writes nothing; each step of changeUsername, changeEmail,
\* changePassword, verifyEmail and sendVerifyEmail keeps that user attached,
\* leaves every other row as it is, adds and removes no row, and leaves
\* every cache key but the verify-email key of that user as it is.
C20_MutationTouchesOnlyCaller ==
  [][\A p \in Procs :
       /\ ((\E op \in AuthOps : Started(p, op)) /\ pc'[p] \in AuthLabels)
          => /\ req'[p].ctx.id = req'[p].authorization.token[1].user_id
             /\ req'[p].ctx = users[req'[p].ctx.id]
             /\ <<users', redis'>> = <<users, redis>>
       /\ (pc[p] \in AuthLabels /\ pc'[p] # pc[p])
          => LET id == req[p].ctx.id
             IN /\ pc'[p] \in AuthLabels => req'[p].ctx = req[p].ctx
                /\ Len(users') = Len(users)
                /\ \A i \in Ids : i # id => users'[i] = users[i]
                /\ \A k \in (DOMAIN redis \cup DOMAIN redis') \ {VerifyKey(id)} :
                     /\ k \in DOMAIN redis /\ k \in DOMAIN redis'
                     /\ redis'[k] = redis[k]
    ]_vars

\* C20 witness: of two registered users the second has verified its email;
\* the first is still unverified and its code is still stored.
C20_Witness ==
  \E p \in Procs :
    /\ pc[p] = "done" /\ req[p].op = "verifyEmail"
    /\ resp[p].kind = "payload" /\ resp[p].user # <<>>
    /\ resp[p].user[1].id = 2 /\ users[2].verified
    /\ ~users[1].verified
    /\ VerifyKey(1) \in DOMAIN redis

====
